---- MODULE Spec2Model ----
(***************************************************************************)
(* monkey-rs front end: the character lexer (src/src/lexer.rs) and the     *)
(* Pratt parser (src/src/parser/mod.rs) with its AST (src/src/ast/mod.rs). *)
(*                                                                         *)
(* A string is a sequence of characters; a character is a TLA+ string      *)
(* naming it.  Rust strings are UTF-8: a character occupies Width(c)       *)
(* bytes, String::len counts bytes, chars().nth counts characters and a    *)
(* slice s[a..b] takes byte offsets.                                       *)
(***************************************************************************)
EXTENDS Integers, Sequences, FiniteSets, TLC

VARIABLES
    mode,           \* "lex": a caller polls the lexer; "parse": Parser over the lexer
    src,            \* the input as written: the sequence of lexemes the text is made of
    lexer,          \* Lexer { input, position, read_position, current }
    stream,         \* history: the tokens lexer.next_token() has returned, in order
    starts,         \* history: for each of them, lexer.position where its match began
    current_token,  \* Parser.current_token : Option<Token>
    peek_token,     \* Parser.peek_token    : Option<Token>
    errors,         \* Parser.errors        : Vec<String>
    statements,     \* program.statements of the running parse_program
    locals,         \* locals of the statement rule being run (let_token, name_token, ...)
    stack,          \* activation records of parse_expression, innermost last
    ret,            \* Option<Expression> returned by the last parse_expression call
    pc              \* control point

vars == <<mode, src, lexer, stream, starts, current_token, peek_token, errors,
          statements, locals, stack, ret, pc>>

(***************************************************************************)
(* Bounds of the model.                                                    *)
(***************************************************************************)
MaxLexPieces == 3   \* lexer inputs: up to this many pieces of LexPieces
MaxToks == 3        \* parser inputs: every sequence of up to this many ParsePieces
MaxOps == 2         \* parser inputs: infix chains with up to this many operators
MaxPrefix == 2      \* parser inputs: up to this many prefix operators on an operand
MaxStmts == 2       \* parser inputs: programs of up to this many let/return statements

(***************************************************************************)
(* Option<T>: None is the empty sequence, Some(x) the one-element one.     *)
(***************************************************************************)
None == <<>>

Some(x) == <<x>>

Min(a, b) == IF a < b THEN a ELSE b

(***************************************************************************)
(* Characters.                                                             *)
(***************************************************************************)
AsciiLetters ==
    {"a","b","c","d","e","f","g","h","i","j","k","l","m",
     "n","o","p","q","r","s","t","u","v","w","x","y","z",
     "A","B","C","D","E","F","G","H","I","J","K","L","M",
     "N","O","P","Q","R","S","T","U","V","W","X","Y","Z"}

Digits == {"0","1","2","3","4","5","6","7","8","9"}

\* One alphabetic character outside ASCII (e-acute, 2 bytes in UTF-8) and one
\* non-alphabetic one (the euro sign, 3 bytes) stand for the rest of Unicode.
EAcute == "U+00E9"

Euro == "U+20AC"

Width(c) == IF c = EAcute THEN 2 ELSE IF c = Euro THEN 3 ELSE 1

\* char::is_alphabetic
is_alphabetic(c) == c \in AsciiLetters \cup {EAcute}

\* Identifier for char
is_identifier(c) == is_alphabetic(c) \/ c = "_"

\* char::is_digit(c, 10)
is_digit(c) == c \in Digits

is_whitespace(c) == c \in {" ", "\t", "\n", "\r"}

(***************************************************************************)
(* String primitives of the standard library the lexer relies on.          *)
(***************************************************************************)
RECURSIVE ByteLen(_)
\* String::len: the length in bytes
ByteLen(s) == IF s = <<>> THEN 0 ELSE Width(Head(s)) + ByteLen(Tail(s))

\* s.chars().nth(i): the i-th character, counting characters from 0
CharsNth(s, i) == IF i < Len(s) THEN Some(s[i + 1]) ELSE None

\* the byte offset at which character number k (from 0) starts
ByteOffset(s, k) == ByteLen(SubSeq(s, 1, k))

IsCharBoundary(s, b) == \E k \in 0..Len(s) : ByteOffset(s, k) = b

\* &s[a..b]: panics unless a <= b and both are character boundaries of s
Slice(s, a, b) ==
    IF a <= b /\ IsCharBoundary(s, a) /\ IsCharBoundary(s, b)
    THEN [ok |-> TRUE,
          text |-> LET first == CHOOSE k \in 0..Len(s) : ByteOffset(s, k) = a
                       last == CHOOSE k \in 0..Len(s) : ByteOffset(s, k) = b
                   IN SubSeq(s, first + 1, last)]
    ELSE [ok |-> FALSE, text |-> <<>>]

(***************************************************************************)
(* Tokens.  token.rs is not among the sources; the kinds are the ones the  *)
(* lexer and the parser name.                                              *)
(***************************************************************************)
Token(t, literal) == [t |-> t, literal |-> literal]

\* token::lookup_ident: the keyword table
lookup_ident(literal) ==
    CASE literal = <<"l","e","t">> -> "Let"
      [] literal = <<"r","e","t","u","r","n">> -> "Return"
      [] literal = <<"f","n">> -> "Function"
      [] literal = <<"i","f">> -> "If"
      [] literal = <<"e","l","s","e">> -> "Else"
      [] literal = <<"t","r","u","e">> -> "True"
      [] literal = <<"f","a","l","s","e">> -> "False"
      [] OTHER -> "Ident"

(***************************************************************************)
(* Lexer.                                                                  *)
(***************************************************************************)
\* position and read_position are usize counters that read_char increments on
\* every call, also at end of input.  Every read of them past the end of the
\* input gives the same result, so the model stops counting one past it.
PositionCap(input) == ByteLen(input) + 1

read_char(l) ==
    [l EXCEPT !.current = IF l.read_position >= ByteLen(l.input)
                          THEN None
                          ELSE CharsNth(l.input, l.read_position),
              !.position = l.read_position,
              !.read_position = Min(l.read_position + 1, PositionCap(l.input))]

LexerNew(input) ==
    read_char([input |-> input, position |-> 0, read_position |-> 0, current |-> None])

\* variant: looks at the character under `position` instead of `read_position`
peek_char_at_position(l) == CharsNth(l.input, l.position)

peek_char(l) == CharsNth(l.input, l.read_position)

RECURSIVE skip_whitespace(_)
skip_whitespace(l) ==
    IF l.current # None /\ is_whitespace(l.current[1])
    THEN skip_whitespace(read_char(l))
    ELSE l

RECURSIVE IdentifierRun(_)
\* the while loop of read_identifier
IdentifierRun(l) ==
    IF l.current # None /\ is_identifier(l.current[1])
    THEN IdentifierRun(read_char(l))
    ELSE l

read_identifier(l) ==
    LET end == IdentifierRun(l)
        s == Slice(l.input, l.position, end.position)
    IN [l |-> end, ok |-> s.ok, literal |-> s.text]

RECURSIVE NumberRun(_)
\* the while loop of read_number
NumberRun(l) ==
    IF l.current # None /\ is_digit(l.current[1])
    THEN NumberRun(read_char(l))
    ELSE l

read_number(l) ==
    LET end == NumberRun(l)
        s == Slice(l.input, l.position, end.position)
    IN [l |-> end, ok |-> s.ok, literal |-> s.text]

\* the one-character arms of the match in next_token
SingleCharType(c) ==
    CASE c = "+" -> "Plus"
      [] c = "-" -> "Minus"
      [] c = "/" -> "Slash"
      [] c = "*" -> "Asterisk"
      [] c = "<" -> "LT"
      [] c = ">" -> "GT"
      [] c = ";" -> "Semicolon"
      [] c = "(" -> "LeftParen"
      [] c = ")" -> "RightParen"
      [] c = "," -> "Comma"
      [] c = "{" -> "LeftBrace"
      [] c = "}" -> "RightBrace"
      [] OTHER -> "Illegal"

\* Lexer::next_token.  ok = FALSE: the call panicked (a slice off a character
\* boundary) and returned nothing.  start: position when the match began.
next_token(l) ==
    LET l1 == skip_whitespace(l)
        cur == l1.current
        ch == cur[1]
        Out(l2, tok) == [l |-> l2, ok |-> TRUE, tok |-> tok, start |-> l1.position]
    IN  IF cur = None THEN Out(read_char(l1), Token("EOF", <<>>))
        ELSE IF ch = "=" THEN
            IF peek_char(l1) = Some("=")
            THEN Out(read_char(read_char(l1)), Token("Eq", <<"=", "=">>))
            ELSE Out(read_char(l1), Token("Assign", <<ch>>))
        ELSE IF ch = "!" THEN
            IF peek_char(l1) = Some("=")
            THEN Out(read_char(read_char(l1)), Token("NotEq", <<"!", "=">>))
            ELSE Out(read_char(l1), Token("Bang", <<ch>>))
        ELSE IF SingleCharType(ch) # "Illegal" THEN
            Out(read_char(l1), Token(SingleCharType(ch), <<ch>>))
        ELSE IF is_identifier(ch) THEN
            LET r == read_identifier(l1)
            IN [l |-> r.l, ok |-> r.ok, tok |-> Token(lookup_ident(r.literal), r.literal),
                start |-> l1.position]
        ELSE IF is_digit(ch) THEN
            LET r == read_number(l1)
            IN [l |-> r.l, ok |-> r.ok, tok |-> Token("Int", r.literal),
                start |-> l1.position]
        ELSE Out(read_char(l1), Token("Illegal", <<ch>>))

(***************************************************************************)
(* AST (ast/mod.rs) and its rendering.                                     *)
(***************************************************************************)
Identifier(token, value) == [kind |-> "Identifier", token |-> token, value |-> value]

IntegerLiteral(token, value) == [kind |-> "IntegerLiteral", token |-> token, value |-> value]

Prefix_(token, operator, right) ==
    [kind |-> "Prefix", token |-> token, operator |-> operator, right |-> right]

Infix(token, operator, left, right) ==
    [kind |-> "Infix", token |-> token, operator |-> operator, left |-> left, right |-> right]

dummy_identifier == Identifier(Token("Ident", <<>>), <<>>)

LetStatement(token, name, value) ==
    [kind |-> "Let", token |-> token, name |-> name, value |-> value]

ReturnStatement(token, value) == [kind |-> "Return", token |-> token, value |-> value]

ExpressionStatement(token, expression) ==
    [kind |-> "Expression", token |-> token, expression |-> expression]

RECURSIVE ExpressionString(_)
\* impl Node for Expression
ExpressionString(e) ==
    CASE e.kind = "Identifier" -> e.value
      [] e.kind = "IntegerLiteral" -> e.token.literal
      [] e.kind = "Prefix" -> <<"(">> \o e.operator \o ExpressionString(e.right) \o <<")">>
      [] e.kind = "Infix" ->
            <<"(">> \o ExpressionString(e.left) \o <<" ">> \o e.operator \o <<" ">>
                    \o ExpressionString(e.right) \o <<")">>

\* impl Node for Statement
StatementString(s) ==
    CASE s.kind = "Let" ->
            <<"l","e","t"," ">> \o s.name.literal \o <<" ","="," ">>
                \o ExpressionString(s.value) \o <<";">>
      [] s.kind = "Return" ->
            <<"r","e","t","u","r","n"," ">> \o ExpressionString(s.value) \o <<";">>
      [] s.kind = "Expression" -> ExpressionString(s.expression) \o <<";">>

(***************************************************************************)
(* Parser: precedences and token classes.                                  *)
(***************************************************************************)
Lowest == 0

Equals == 1

LessGreater == 2

Sum == 3

Product == 4

Prefix == 5

Call == 6

precedence_of_infix_operator(t) ==
    CASE t \in {"Eq", "NotEq"} -> Equals
      [] t \in {"LT", "GT"} -> LessGreater
      [] t \in {"Plus", "Minus"} -> Sum
      [] t \in {"Slash", "Asterisk"} -> Product
      [] OTHER -> Lowest

is_nud(t) == t \in {"Bang", "Minus", "Ident", "Int"}

is_led(t) == t \in {"Plus", "Minus", "Slash", "Asterisk", "Eq", "NotEq", "LT", "GT"}

\* variant: tests the lookahead token instead of the current one
current_token_is_peek(t) == peek_token # None /\ peek_token[1].t = t

current_token_is(t) == current_token # None /\ current_token[1].t = t

peek_token_is(t) == peek_token # None /\ peek_token[1].t = t

peek_precedence == precedence_of_infix_operator(peek_token[1].t)

current_precedence == precedence_of_infix_operator(current_token[1].t)

\* i32::MAX, the largest value str::parse::<i32> accepts
I32Max == 2147483647

DigitValue(c) == CHOOSE d \in 0..9 : ToString(d) = c

RECURSIVE ParseBelow(_, _)
\* the same accumulation with another largest value
ParseBelow(literal, max) ==
    IF literal = <<>> THEN None
    ELSE LET d == DigitValue(literal[Len(literal)])
             front == IF Len(literal) = 1
                      THEN Some(0)
                      ELSE ParseBelow(SubSeq(literal, 1, Len(literal) - 1), max)
         IN  IF front = None \/ front[1] > (max - d) \div 10
             THEN None
             ELSE Some(10 * front[1] + d)

\* variant: the largest value itself is rejected
ParseI32Exclusive(literal) == ParseBelow(literal, I32Max - 1)

RECURSIVE ParseI32(_)
\* literal.parse::<i32>() on a run of decimal digits: the digits are accumulated
\* with checked_mul and checked_add; Some(value), or None for Err (empty, overflow)
ParseI32(literal) ==
    IF literal = <<>> THEN None
    ELSE LET d == DigitValue(literal[Len(literal)])
             front == IF Len(literal) = 1
                      THEN Some(0)
                      ELSE ParseI32(SubSeq(literal, 1, Len(literal) - 1))
         IN  IF front = None \/ front[1] > (I32Max - d) \div 10
             THEN None
             ELSE Some(10 * front[1] + d)

\* the message pushed by peek_error: format!("expected next Token to be {:?}, got {:?} instead")
PeekErrorMessage(t) ==
    <<"expected next Token to be ", t, ", got ", peek_token[1].t, " instead">>

\* the message pushed by parse_integer_literal
IntegerErrorMessage(literal) == <<"cloud not parse ", literal, " as integer">>

(***************************************************************************)
(* Parser: the state machine.  parse_expression is recursive; its          *)
(* activation records are on `stack`.  A frame is at one of                *)
(*   "enter"      line 176, the nud test                                   *)
(*   "prefix_ret" line 204, the operand of a prefix operator has returned  *)
(*   "loop"       line 183, the test of the while loop                     *)
(*   "led"        line 190, after the advance onto the infix operator      *)
(*   "led_ret"    line 227, the right operand has returned                 *)
(***************************************************************************)
Frame(precedence) == [st |-> "enter", precedence |-> precedence, left |-> None, token |-> None]

Top == stack[Len(stack)]

SetTop(f) == [stack EXCEPT ![Len(stack)] = f]

\* the history keeps what a completed parse can ask for, and three tokens more
StreamLimit == Len(lexer.input) + 3

Recorded(seq, x) == IF Len(seq) < StreamLimit THEN Append(seq, x) ELSE seq

\* variant: the fresh token goes to current_token, the old lookahead is lost
AdvanceLosingPeek(to) ==
    LET r == next_token(lexer)
    IN  /\ lexer' = r.l
        /\ current_token' = Some(r.tok)
        /\ IF r.ok
           THEN /\ peek_token' = Some(r.tok)
                /\ stream' = Recorded(stream, r.tok)
                /\ starts' = Recorded(starts, r.start)
                /\ pc' = to
           ELSE /\ pc' = "panic"
                /\ UNCHANGED <<peek_token, stream, starts>>

\* Parser::next_token, then control goes to `to`; a panic of the lexer ends the run
Advance(to) ==
    LET r == next_token(lexer)
    IN  /\ lexer' = r.l
        /\ current_token' = peek_token
        /\ IF r.ok
           THEN /\ peek_token' = Some(r.tok)
                /\ stream' = Recorded(stream, r.tok)
                /\ starts' = Recorded(starts, r.start)
                /\ pc' = to
           ELSE /\ pc' = "panic"
                /\ UNCHANGED <<peek_token, stream, starts>>

NoAdvance == UNCHANGED <<lexer, current_token, peek_token, stream, starts>>

\* return from parse_expression to its caller
ReturnExpression(value) ==
    /\ stack' = SubSeq(stack, 1, Len(stack) - 1)
    /\ ret' = value
    /\ pc' = IF Len(stack) = 1 THEN "expression_statement" ELSE "parse_expression"

\* Parser::new
ParserNew ==
    /\ pc = "new"
    /\ LET r1 == next_token(lexer)
           r2 == next_token(r1.l)
       IN  IF ~r1.ok
           THEN /\ lexer' = r1.l
                /\ pc' = "panic"
                /\ UNCHANGED <<current_token, peek_token, stream, starts>>
           ELSE /\ lexer' = r2.l
                /\ current_token' = Some(r1.tok)
                /\ IF r2.ok
                   THEN /\ peek_token' = Some(r2.tok)
                        /\ stream' = Recorded(Recorded(stream, r1.tok), r2.tok)
                        /\ starts' = Recorded(Recorded(starts, r1.start), r2.start)
                        /\ pc' = "parse_program"
                   ELSE /\ peek_token' = Some(r1.tok)
                        /\ stream' = Recorded(stream, r1.tok)
                        /\ starts' = Recorded(starts, r1.start)
                        /\ pc' = "panic"
    /\ UNCHANGED <<mode, src, errors, statements, locals, stack, ret>>

\* parse_program: the loop test, and parse_statement's dispatch
ParseProgram ==
    /\ pc = "parse_program"
    /\ IF current_token = None \/ current_token[1].t = "EOF"
       THEN /\ pc' = "done"
            /\ UNCHANGED <<locals, stack>>
       ELSE /\ locals' = [token |-> current_token[1], name |-> None]
            /\ IF current_token[1].t = "Let"
               THEN pc' = "let_ident" /\ UNCHANGED stack
               ELSE IF current_token[1].t = "Return"
               THEN pc' = "return_skip" /\ UNCHANGED stack
               ELSE pc' = "parse_expression" /\ stack' = <<Frame(Lowest)>>
    /\ NoAdvance
    /\ UNCHANGED <<mode, src, errors, statements, ret>>

\* variant: the lookahead token is consumed on a mismatch too
ExpectPeekConsuming(t, to) ==
    IF peek_token # None /\ peek_token[1].t = t
    THEN Advance(to) /\ UNCHANGED errors
    ELSE /\ errors' = Append(errors, PeekErrorMessage(t))
         /\ Advance("next")

\* expect_peek(t) in a let statement: on a match control goes to `to`, otherwise
\* the rule returns None and parse_program goes on to its next_token
ExpectPeek(t, to) ==
    IF peek_token_is(t)
    THEN Advance(to) /\ UNCHANGED errors
    ELSE /\ errors' = Append(errors, PeekErrorMessage(t))
         /\ pc' = "next"
         /\ NoAdvance

\* parse_let_statement: expect_peek(Ident)
LetExpectIdent ==
    /\ pc = "let_ident"
    /\ ExpectPeek("Ident", "let_assign")
    /\ locals' = IF peek_token_is("Ident")
                 THEN [locals EXCEPT !.name = peek_token]
                 ELSE locals
    /\ UNCHANGED <<mode, src, statements, stack, ret>>

\* parse_let_statement: expect_peek(Assign)
LetExpectAssign ==
    /\ pc = "let_assign"
    /\ ExpectPeek("Assign", "let_skip")
    /\ UNCHANGED <<mode, src, statements, locals, stack, ret>>

\* parse_let_statement: one iteration of the loop that skips to the semicolon
LetSkip ==
    /\ pc = "let_skip"
    /\ ~current_token_is("Semicolon")
    /\ Advance("let_skip")
    /\ UNCHANGED <<mode, src, errors, statements, locals, stack, ret>>

\* variant: the let rule returns without looking for the semicolon
LetReturnWithoutSkip ==
    /\ pc = "let_skip"
    /\ statements' = Append(statements,
                            LetStatement(locals.token, locals.name[1], dummy_identifier))
    /\ pc' = "next"
    /\ NoAdvance
    /\ UNCHANGED <<mode, src, errors, locals, stack, ret>>

\* parse_let_statement returns the statement, parse_program pushes it
LetReturn ==
    /\ pc = "let_skip"
    /\ current_token_is("Semicolon")
    /\ statements' = Append(statements,
                            LetStatement(locals.token, locals.name[1], dummy_identifier))
    /\ pc' = "next"
    /\ NoAdvance
    /\ UNCHANGED <<mode, src, errors, locals, stack, ret>>

\* parse_return_statement: one iteration of the loop that skips to the semicolon
ReturnSkip ==
    /\ pc = "return_skip"
    /\ ~current_token_is("Semicolon")
    /\ Advance("return_skip")
    /\ UNCHANGED <<mode, src, errors, statements, locals, stack, ret>>

\* parse_return_statement returns the statement, parse_program pushes it
ReturnReturn ==
    /\ pc = "return_skip"
    /\ current_token_is("Semicolon")
    /\ statements' = Append(statements, ReturnStatement(locals.token, dummy_identifier))
    /\ pc' = "next"
    /\ NoAdvance
    /\ UNCHANGED <<mode, src, errors, locals, stack, ret>>

\* variant: the semicolon after the expression is never consumed
ExpressionStatementEndKeepsSemicolon ==
    /\ pc = "expression_statement"
    /\ IF ret = None
       THEN /\ pc' = "panic"
            /\ UNCHANGED statements
       ELSE /\ statements' = Append(statements, ExpressionStatement(locals.token, ret[1]))
            /\ pc' = "next"
    /\ NoAdvance
    /\ UNCHANGED <<mode, src, errors, locals, stack, ret>>

\* parse_expression_statement after parse_expression(Lowest) has returned:
\* the unwrap, the optional semicolon, and parse_program's push
ExpressionStatementEnd ==
    /\ pc = "expression_statement"
    /\ IF ret = None
       THEN /\ pc' = "panic"
            /\ NoAdvance
            /\ UNCHANGED statements
       ELSE /\ statements' = Append(statements, ExpressionStatement(locals.token, ret[1]))
            /\ IF peek_token_is("Semicolon")
               THEN Advance("next")
               ELSE pc' = "next" /\ NoAdvance
    /\ UNCHANGED <<mode, src, errors, locals, stack, ret>>

\* parse_program: the next_token that ends an iteration of its loop
ProgramNext ==
    /\ pc = "next"
    /\ Advance("parse_program")
    /\ UNCHANGED <<mode, src, errors, statements, locals, stack, ret>>

\* variant: the prefix operand is parsed at Lowest instead of Prefix
PrefixOperandFrameLowest == Frame(Lowest)

\* the activation parse_nud starts for the operand of a prefix operator
PrefixOperandFrame == Frame(Prefix)

\* parse_expression up to its loop: the nud test and parse_nud
\* (parse_identifier, parse_integer_literal, or the advance past a prefix operator)
ParseExpressionEnter ==
    /\ pc = "parse_expression"
    /\ Top.st = "enter"
    /\ LET tok == current_token[1]
           value == ParseI32(tok.literal)
       IN  IF ~is_nud(tok.t)
           THEN /\ ReturnExpression(None)
                /\ NoAdvance
                /\ UNCHANGED errors
           ELSE IF tok.t = "Ident"
           THEN /\ stack' = SetTop([Top EXCEPT !.st = "loop",
                                               !.left = Some(Identifier(tok, tok.literal))])
                /\ NoAdvance
                /\ UNCHANGED <<errors, ret, pc>>
           ELSE IF tok.t = "Int"
           THEN /\ IF value # None
                   THEN /\ stack' = SetTop([Top EXCEPT
                                               !.st = "loop",
                                               !.left = Some(IntegerLiteral(tok, value[1]))])
                        /\ UNCHANGED errors
                   ELSE /\ stack' = SetTop([Top EXCEPT !.st = "loop", !.left = None])
                        /\ errors' = Append(errors, IntegerErrorMessage(tok.literal))
                /\ NoAdvance
                /\ UNCHANGED <<ret, pc>>
           ELSE /\ Advance("parse_expression")
                /\ stack' = Append(SetTop([Top EXCEPT !.st = "prefix_ret",
                                                      !.token = Some(tok)]),
                                   PrefixOperandFrame)
                /\ UNCHANGED <<errors, ret>>
    /\ UNCHANGED <<mode, src, statements, locals>>

\* parse_nud, prefix arm: the operand has returned
ParsePrefixReturn ==
    /\ pc = "parse_expression"
    /\ Top.st = "prefix_ret"
    /\ stack' = SetTop([Top EXCEPT
                           !.st = "loop",
                           !.left = IF ret # None
                                    THEN Some(Prefix_(Top.token[1], Top.token[1].literal, ret[1]))
                                    ELSE None])
    /\ NoAdvance
    /\ UNCHANGED <<mode, src, errors, statements, locals, ret, pc>>

\* variant: `<=` instead of `<`, which groups equal levels to the right
ClimbConditionOrEqual(precedence) ==
    ~(peek_token # None /\ peek_token[1].t = "Semicolon") /\ precedence <= peek_precedence

\* the condition of the while loop of parse_expression
ClimbCondition(precedence) == ~peek_token_is("Semicolon") /\ precedence < peek_precedence

\* parse_expression: the test of the while loop, then either the advance onto
\* the infix operator or the return of the left operand
ParseExpressionLoop ==
    /\ pc = "parse_expression"
    /\ Top.st = "loop"
    /\ IF ClimbCondition(Top.precedence) /\ is_led(peek_token[1].t)
       THEN /\ Advance("parse_expression")
            /\ stack' = SetTop([Top EXCEPT !.st = "led"])
            /\ UNCHANGED ret
       ELSE /\ ReturnExpression(Top.left)
            /\ NoAdvance
    /\ UNCHANGED <<mode, src, errors, statements, locals>>

\* left_expression.unwrap() and parse_led up to its call of parse_expression
ParseLed ==
    /\ pc = "parse_expression"
    /\ Top.st = "led"
    /\ IF Top.left = None
       THEN /\ pc' = "panic"
            /\ NoAdvance
            /\ UNCHANGED stack
       ELSE /\ Advance("parse_expression")
            /\ stack' = Append(SetTop([Top EXCEPT !.st = "led_ret",
                                                  !.token = current_token]),
                               Frame(current_precedence))
    /\ UNCHANGED <<mode, src, errors, statements, locals, ret>>

\* parse_led: the right operand has returned; the unwrap and the Infix node
ParseLedReturn ==
    /\ pc = "parse_expression"
    /\ Top.st = "led_ret"
    /\ IF ret = None
       THEN /\ pc' = "panic"
            /\ UNCHANGED stack
       ELSE /\ stack' = SetTop([Top EXCEPT
                                   !.st = "loop",
                                   !.left = Some(Infix(Top.token[1], Top.token[1].literal,
                                                       Top.left[1], ret[1]))])
            /\ UNCHANGED pc
    /\ NoAdvance
    /\ UNCHANGED <<mode, src, errors, statements, locals, ret>>

\* a caller of the lexer alone (the REPL of bin/main.rs, the loop of tests::it_works):
\* one call of Lexer::next_token
LexerCall ==
    /\ pc = "lex"
    /\ Len(stream) < StreamLimit
    /\ LET r == next_token(lexer)
       IN  /\ lexer' = r.l
           /\ IF r.ok
              THEN /\ stream' = Append(stream, r.tok)
                   /\ starts' = Append(starts, r.start)
                   /\ UNCHANGED pc
              ELSE /\ pc' = "panic"
                   /\ UNCHANGED <<stream, starts>>
    /\ UNCHANGED <<mode, src, current_token, peek_token, errors, statements, locals,
                   stack, ret>>

(***************************************************************************)
(* Inputs.  A text is made of lexemes: run together for the lexer alone,   *)
(* one space apart for the parser.                                         *)
(***************************************************************************)
KwLet == <<"l","e","t">>

KwReturn == <<"r","e","t","u","r","n">>

KwFn == <<"f","n">>

Semi == <<";">>

\* a run of digits one above i32::MAX
TooBig == <<"2","1","4","7","4","8","3","6","4","8">>

RECURSIVE Flatten(_)
Flatten(pieces) == IF pieces = <<>> THEN <<>> ELSE Head(pieces) \o Flatten(Tail(pieces))

RECURSIVE JoinSp(_)
JoinSp(lexemes) ==
    IF Len(lexemes) <= 1 THEN Flatten(lexemes)
    ELSE Head(lexemes) \o <<" ">> \o JoinSp(Tail(lexemes))

SeqsUpTo(S, n) == UNION {[1..k -> S] : k \in 0..n}

WithSemi(S) == S \cup {Append(x, Semi) : x \in S}

LexPieces ==
    {KwLet, KwFn, <<"x">>, <<"_">>, <<"1">>, <<"=">>, <<"!">>, <<" ">>, <<"\n">>, Semi,
     <<"@">>, <<EAcute>>, <<Euro>>}

LexSamples ==
    {<<KwReturn>>, <<<<"i","f">>>>, <<<<"e","l","s","e">>>>, <<<<"t","r","u","e">>>>,
     <<<<"f","a","l","s","e">>>>, <<KwLet, <<"t","u","c","e">>>>,
     <<<<"f","o","o">>, <<"1">>>>,
     <<<<"+">>, <<"-">>, <<"/">>, <<"*">>, <<"<">>, <<">">>, Semi, <<"(">>, <<")">>,
       <<",">>, <<"{">>, <<"}">>>>,
     <<<<"\t">>, <<"x">>, <<"\r">>, <<"\n">>, <<"y">>>>,
     <<<<"1","0">>, <<" ">>, <<"=","=">>, <<" ">>, <<"1","0">>, Semi, <<"\n">>,
       <<"1","0">>, <<" ">>, <<"!","=">>, <<" ">>, <<"9">>, Semi>>}

LexSrcs == SeqsUpTo(LexPieces, MaxLexPieces) \cup LexSamples

ParsePieces ==
    {KwLet, KwReturn, <<"x">>, <<"5">>, <<"=">>, <<"+">>, <<"*">>, <<"!">>, Semi, TooBig}

Atoms == {<<"a">>, <<"5">>}

InfixOps == {<<"=","=">>, <<"!","=">>, <<"<">>, <<">">>, <<"+">>, <<"-">>, <<"*">>, <<"/">>}

PrefixOps == {<<"!">>, <<"-">>}

Interleave(operands, operators) ==
    [i \in 1..(2 * Len(operators) + 1) |->
        IF i % 2 = 1 THEN operands[(i + 1) \div 2] ELSE operators[i \div 2]]

\* operand (operator operand)^k, k <= MaxOps
InfixSrcs ==
    UNION {{Interleave(a, o) : a \in [1..(k + 1) -> Atoms], o \in [1..k -> InfixOps]} :
           k \in 0..MaxOps}

Units(n) == {Append(p, a) : p \in SeqsUpTo(PrefixOps, n), a \in Atoms}

\* a prefixed operand, alone or as the left operand of one infix operator
PrefixSrcs ==
    Units(MaxPrefix)
    \cup {u \o <<o>> \o v : u \in Units(MaxPrefix), o \in InfixOps, v \in Units(1)}

StmtBodies == {<<<<"5">>>>, <<<<"a">>, <<"+">>, <<"5">>>>, <<<<"-">>, <<"a">>>>}

Stmts ==
    {<<KwLet, id, <<"=">>>> \o e \o <<Semi>> : id \in {<<"x">>, <<"y">>}, e \in StmtBodies}
    \cup {<<KwReturn>> \o e \o <<Semi>> : e \in StmtBodies}

\* programs of up to n well-formed let and return statements
Programs(n) == {Flatten(p) : p \in SeqsUpTo(Stmts, n)}

BadLets == {<<KwLet, <<"=">>, <<"5">>, Semi>>, <<KwLet, Semi>>}

\* a let statement without its identifier, then one valid statement
BadLetSrcs == {b \o p : b \in BadLets, p \in Programs(1) \ {<<>>}}

\* the inputs of the parser's tests and of the specification's examples
ParseSamples ==
    {<<KwLet, <<"x">>, <<"=">>, <<"5">>, Semi, KwLet, <<"y">>, <<"=">>, <<"1","0">>, Semi,
       KwLet, <<"f","o","o","b","a","r">>, <<"=">>, <<"8","3","8","3","8","3">>, Semi>>,
     <<KwReturn, <<"5">>, Semi, KwReturn, <<"1","0">>, Semi,
       KwReturn, <<"9","9","3","3","2","2">>, Semi>>,
     <<<<"f","o","o","b","a","r">>, Semi>>,
     <<<<"5","5">>, Semi>>,
     <<<<"!">>, <<"5">>, Semi>>,
     <<<<"-">>, <<"1","5">>, Semi>>,
     <<<<"-">>, <<"a">>, <<"*">>, <<"b">>>>,
     <<<<"a">>, <<"+">>, <<"b">>, <<"*">>, <<"c">>, <<"+">>, <<"d">>, <<"/">>, <<"e">>,
       <<"-">>, <<"f">>>>,
     <<<<"5">>, <<"<">>, <<"1","0">>, <<">">>, <<"5">>>>,
     <<KwLet, <<"x">>, <<"5">>, Semi, <<"y">>, Semi>>}

\* i32::MAX as a run of digits
I32MaxDigits == <<"2","1","4","7","4","8","3","6","4","7">>

\* integer literals at and around the largest value, alone and under a minus sign
\* (written with and without a space after the sign)
IntegerSamples ==
    LET runs == {I32MaxDigits, TooBig, <<"0","0">> \o I32MaxDigits,
                 <<"2","1","4","7","4","8","3","6","5","0">>,
                 <<"1","9","9","9","9","9","9","9","9","9">>,
                 <<"3","0","0","0","0","0","0","0","0","0">>,
                 I32MaxDigits \o <<"0">>, <<"0","0","7">>}
    IN  {<<r, Semi>> : r \in runs} \cup {<<<<"-">>, r, Semi>> : r \in runs}
        \cup {<<<<"-">> \o r, Semi>> : r \in runs}

\* a let or return statement with arbitrary tokens before its semicolon, then
\* nothing or an expression statement
SkipSamples ==
    {head \o junk \o <<Semi>> \o rest :
        head \in {<<KwReturn>>, <<KwLet, <<"x">>, <<"=">>>>},
        junk \in {<<>>, <<<<"+">>>>, <<KwLet>>, <<TooBig>>, <<<<"=">>, KwReturn>>,
                  <<<<"5">>, <<"*">>>>},
        rest \in {<<>>, <<<<"y">>>>, <<<<"y">>, Semi>>}}

ParseSrcs ==
    SeqsUpTo(ParsePieces, MaxToks) \cup WithSemi(InfixSrcs) \cup WithSemi(PrefixSrcs)
    \cup Programs(MaxStmts) \cup BadLetSrcs \cup ParseSamples \cup IntegerSamples
    \cup SkipSamples

(***************************************************************************)
(* The specification.                                                      *)
(***************************************************************************)
Init ==
    /\ mode \in {"lex", "parse"}
    /\ src \in IF mode = "lex" THEN LexSrcs ELSE ParseSrcs
    /\ lexer = LexerNew(IF mode = "lex" THEN Flatten(src) ELSE JoinSp(src))
    /\ pc = IF mode = "lex" THEN "lex" ELSE "new"
    /\ stream = <<>>
    /\ starts = <<>>
    /\ current_token = None
    /\ peek_token = None
    /\ errors = <<>>
    /\ statements = <<>>
    /\ locals = [token |-> Token("EOF", <<>>), name |-> None]
    /\ stack = <<>>
    /\ ret = None

NextParse ==
    \/ ParserNew
    \/ ParseProgram
    \/ LetExpectIdent
    \/ LetExpectAssign
    \/ LetSkip
    \/ LetReturn
    \/ ReturnSkip
    \/ ReturnReturn
    \/ ParseExpressionEnter
    \/ ParsePrefixReturn
    \/ ParseExpressionLoop
    \/ ParseLed
    \/ ParseLedReturn
    \/ ExpressionStatementEnd
    \/ ProgramNext

Next == LexerCall \/ NextParse

Spec == Init /\ [][Next]_vars

(***************************************************************************)
(* Reference definitions the properties are stated with.  They read the    *)
(* input as written (src) and the text, never the parser's state.          *)
(***************************************************************************)
Last(seq) == seq[Len(seq)]

Input == lexer.input

Halted == pc \in {"done", "panic"}

\* the text with its whitespace characters removed
StripWhitespace(text) == SelectSeq(text, LAMBDA c : ~is_whitespace(c))

\* the tokens returned before the first end-of-input token
BeforeEof(tokens) ==
    IF \E i \in 1..Len(tokens) : tokens[i].t = "EOF"
    THEN SubSeq(tokens, 1, (CHOOSE i \in 1..Len(tokens) :
                               /\ tokens[i].t = "EOF"
                               /\ \A j \in 1..(i - 1) : tokens[j].t # "EOF") - 1)
    ELSE tokens

Literals(tokens) == Flatten([i \in 1..Len(tokens) |-> tokens[i].literal])

Keywords ==
    {KwLet, KwReturn, KwFn, <<"i","f">>, <<"e","l","s","e">>, <<"t","r","u","e">>,
     <<"f","a","l","s","e">>}

LexemeIsIdent(x) ==
    /\ x # <<>>
    /\ \A i \in 1..Len(x) : x[i] \in AsciiLetters \cup {"_"}
    /\ x \notin Keywords

\* a run of at most nine digits: its value is below 10^9, within i32
LexemeIsInt(x) == x # <<>> /\ Len(x) <= 9 /\ \A i \in 1..Len(x) : x[i] \in Digits

LexemeIsAtom(x) == LexemeIsIdent(x) \/ LexemeIsInt(x)

\* the input without the one semicolon that may end it
Body(lexemes) ==
    IF lexemes # <<>> /\ Last(lexemes) = Semi
    THEN SubSeq(lexemes, 1, Len(lexemes) - 1)
    ELSE lexemes

\* operand (operator operand)*
IsInfixChain(e) ==
    /\ Len(e) % 2 = 1
    /\ \A i \in 1..Len(e) : IF i % 2 = 1 THEN LexemeIsAtom(e[i]) ELSE e[i] \in InfixOps

RECURSIVE WellFormedFrom(_, _, _)
WellFormedFrom(e, i, operand) ==
    IF i > Len(e) THEN ~operand
    ELSE IF operand
    THEN \/ LexemeIsAtom(e[i]) /\ WellFormedFrom(e, i + 1, FALSE)
         \/ e[i] \in PrefixOps /\ WellFormedFrom(e, i + 1, TRUE)
    ELSE e[i] \in InfixOps /\ WellFormedFrom(e, i + 1, TRUE)

\* unit (operator unit)*, a unit being an operand under any number of prefix operators
WellFormedExpression(e) == WellFormedFrom(e, 1, TRUE)

\* the places of e where an operator stands between two operands
BinaryPlaces(e) == {i \in 2..Len(e) : e[i] \in InfixOps /\ LexemeIsAtom(e[i - 1])}

HasPrefixOperator(e) ==
    \E i \in 1..Len(e) : e[i] \in PrefixOps /\ i \notin BinaryPlaces(e)

\* the precedence table: Equals < LessGreater < Sum < Product
TableLevel(op) ==
    CASE op \in {<<"=","=">>, <<"!","=">>} -> 1
      [] op \in {<<"<">>, <<">">>} -> 2
      [] op \in {<<"+">>, <<"-">>} -> 3
      [] op \in {<<"*">>, <<"/">>} -> 4

RECURSIVE Canonical(_)
\* the fully parenthesized form of a well-formed expression: it splits at the
\* last operator of the lowest level; a prefix operator takes the unit after it
Canonical(e) ==
    IF BinaryPlaces(e) = {}
    THEN IF Len(e) = 1 THEN e[1]
         ELSE <<"(">> \o e[1] \o Canonical(Tail(e)) \o <<")">>
    ELSE LET low == CHOOSE l \in 1..4 :
                       /\ \E i \in BinaryPlaces(e) : TableLevel(e[i]) = l
                       /\ \A i \in BinaryPlaces(e) : TableLevel(e[i]) >= l
             at == CHOOSE i \in BinaryPlaces(e) :
                       /\ TableLevel(e[i]) = low
                       /\ \A j \in BinaryPlaces(e) : TableLevel(e[j]) = low => j <= i
         IN  <<"(">> \o Canonical(SubSeq(e, 1, at - 1)) \o <<" ">> \o e[at] \o <<" ">>
                     \o Canonical(SubSeq(e, at + 1, Len(e))) \o <<")">>

RECURSIVE SplitStatements(_)
\* the statements of a text in which every statement ends with a semicolon
SplitStatements(lexemes) ==
    IF lexemes = <<>> THEN <<>>
    ELSE LET end == IF \E i \in 1..Len(lexemes) : lexemes[i] = Semi
                    THEN CHOOSE i \in 1..Len(lexemes) :
                            /\ lexemes[i] = Semi
                            /\ \A j \in 1..(i - 1) : lexemes[j] # Semi
                    ELSE Len(lexemes) + 1
         IN  <<SubSeq(lexemes, 1, end - 1)>>
             \o SplitStatements(SubSeq(lexemes, end + 1, Len(lexemes)))

\* let IDENT = EXPR
IsLetForm(st) ==
    /\ Len(st) >= 4
    /\ st[1] = KwLet
    /\ LexemeIsIdent(st[2])
    /\ st[3] = <<"=">>
    /\ WellFormedExpression(SubSeq(st, 4, Len(st)))

\* return EXPR
IsReturnForm(st) ==
    /\ Len(st) >= 2
    /\ st[1] = KwReturn
    /\ WellFormedExpression(SubSeq(st, 2, Len(st)))

\* a sequence of statements let IDENT = EXPR; and return EXPR;
IsStatementProgram(lexemes) ==
    /\ lexemes = <<>> \/ Last(lexemes) = Semi
    /\ \A i \in 1..Len(SplitStatements(lexemes)) :
          IsLetForm(SplitStatements(lexemes)[i]) \/ IsReturnForm(SplitStatements(lexemes)[i])

(***************************************************************************)
(* Properties.                                                             *)
(***************************************************************************)
\* C1: Parser::new followed by parse_program never panics, whatever the tokens:
\* a token that cannot start an expression, a missing right operand or an
\* unparseable integer literal only ever gives a missing node or an error entry.
ParseNeverPanics == mode = "parse" => pc # "panic"

\* C2: parse_program terminates on every finite input, also when a let or return
\* statement has no terminating semicolon before the end of the input: each
\* iteration of a loop that skips to the semicolon advances the token stream.
\* (The program is deterministic: an iteration that leaves the lexer and both
\* tokens as they were is followed by the same iteration for ever.)
ParseTerminates ==
    [][(mode = "parse" /\ pc \in {"let_skip", "return_skip"} /\ pc' = pc)
           => <<lexer, current_token, peek_token>>' # <<lexer, current_token, peek_token>>]_vars

\* a let statement whose `let` is not followed by an identifier, then one or
\* more well-formed let and return statements
IsBadLetThenValid(lexemes) ==
    /\ Len(lexemes) >= 2
    /\ lexemes[1] = KwLet
    /\ ~LexemeIsIdent(lexemes[2])
    /\ Last(lexemes) = Semi
    /\ Len(SplitStatements(lexemes)) >= 2
    /\ \A i \in 2..Len(SplitStatements(lexemes)) :
          IsLetForm(SplitStatements(lexemes)[i]) \/ IsReturnForm(SplitStatements(lexemes)[i])

\* C3: after a let statement without its identifier the parse goes on: an error
\* entry names the expected kind (Ident), the malformed statement is left out,
\* and every valid statement after it is parsed and is in the Program.
MalformedLetRecovery ==
    (mode = "parse" /\ IsBadLetThenValid(src)) =>
        /\ pc # "panic"
        /\ pc = "done" =>
              /\ \E i \in 1..Len(errors) : errors[i][2] = "Ident"
              /\ Len(statements) = Len(SplitStatements(src)) - 1
              /\ \A i \in 1..Len(statements) :
                    statements[i].kind =
                        IF SplitStatements(src)[i + 1][1] = KwLet THEN "Let" ELSE "Return"

\* C4: the literals of the tokens returned before the first end-of-input token,
\* concatenated in order, are the input with its whitespace characters removed.
TokensPartitionInput ==
    (stream # <<>> /\ Last(stream).t = "EOF") =>
        Literals(BeforeEof(stream)) = StripWhitespace(Input)

\* C5: on an input of n characters every call of next_token returns a token, the
\* end-of-input token (with empty literal) is returned by one of the first n+1
\* calls, and every call after it returns the end-of-input token again.
EofWithinLengthAndStays ==
    /\ mode = "lex" => pc # "panic"
    /\ Len(stream) >= Len(Input) + 1 =>
          \E k \in 1..(Len(Input) + 1) : stream[k] = Token("EOF", <<>>)
    /\ \A i \in 1..(Len(stream) - 1) :
          stream[i].t = "EOF" => stream[i + 1] = Token("EOF", <<>>)

\* the character of the input at index i (from 0), "" past its end
CharAt(i) == IF i < Len(Input) THEN Input[i + 1] ELSE ""

\* C6: == and != are emitted exactly when = or ! is immediately followed by =, and
\* take both characters; = or ! followed by anything else, or by the end of the
\* input, is the one-character Assign or Bang, and the character after it is
\* lexed on its own.
TwoCharOperators ==
    \A i \in 1..Len(stream) :
        LET at == starts[i]
            c == CharAt(at)
            two == CharAt(at + 1) = "="
        IN  /\ (c \in {"=", "!"} /\ two) =>
                  /\ stream[i] = Token(IF c = "=" THEN "Eq" ELSE "NotEq", <<c, "=">>)
                  /\ i < Len(stream) => starts[i + 1] >= at + 2
            /\ (c \in {"=", "!"} /\ ~two) =>
                  /\ stream[i] = Token(IF c = "=" THEN "Assign" ELSE "Bang", <<c>>)
                  /\ (i < Len(stream) /\ CharAt(at + 1) # "" /\ ~is_whitespace(CharAt(at + 1)))
                        => starts[i + 1] = at + 1
            /\ stream[i].t \in {"Eq", "NotEq"} => (c \in {"=", "!"} /\ two)

\* C6 witness: "!==" has been lexed to its end
TwoCharOperatorsWitness ==
    /\ Input = <<"!", "=", "=">>
    /\ stream = <<Token("NotEq", <<"!", "=">>), Token("Assign", <<"=">>), Token("EOF", <<>>)>>

\* the end (exclusive, from 0) of the maximal run of letters and underscores at i
RunEnd(i) ==
    CHOOSE j \in i..Len(Input) :
        /\ \A k \in i..(j - 1) : is_identifier(CharAt(k))
        /\ j = Len(Input) \/ ~is_identifier(CharAt(j))

\* C7: a token that starts at a letter or underscore covers the maximal run of
\* letters and underscores there, its literal is the text of the run, and it is a
\* keyword exactly when the whole run is one of the seven keywords; digits do
\* not extend the run.
IdentifierIsMaximalRun ==
    \A i \in 1..Len(stream) :
        LET at == starts[i]
            run == SubSeq(Input, at + 1, RunEnd(at))
        IN  IF CharAt(at) # "" /\ is_identifier(CharAt(at))
            THEN /\ stream[i].literal = run
                 /\ stream[i].t # "Ident" <=> run \in Keywords
                 /\ stream[i].t \in {"Ident", "Let", "Return", "Function", "If", "Else",
                                     "True", "False"}
                 /\ i < Len(stream) => starts[i + 1] >= RunEnd(at)
            ELSE stream[i].t \notin {"Ident", "Let", "Return", "Function", "If", "Else",
                                     "True", "False"}

\* the parse has returned a Program of one expression statement and no errors
OneExpressionStatement ==
    /\ errors = <<>>
    /\ Len(statements) = 1
    /\ statements[1].kind = "Expression"

LongChain ==
    <<<<"a">>, <<"+">>, <<"b">>, <<"*">>, <<"c">>, <<"+">>, <<"d">>, <<"/">>, <<"e">>,
      <<"-">>, <<"f">>>>

LongChainRendered ==
    <<"(", "(", "(", "a", " ", "+", " ", "(", "b", " ", "*", " ", "c", ")", ")", " ", "+", " ", "(", "d", " ", "/", " ", "e", ")", ")", " ", "-", " ", "f", ")">>

\* C8: an expression statement of identifiers and integer literals joined by the
\* infix operators ==, !=, <, >, +, -, *, / parses, without panic or error, to the
\* tree whose rendering is the fully parenthesized form of the precedence table
\* Equals < LessGreater < Sum < Product, equal levels grouped to the left;
\* L op R gives one Infix node with that operator text and the operands L and R.
InfixGrouping ==
    (mode = "parse" /\ IsInfixChain(Body(src))) =>
        /\ pc # "panic"
        /\ pc = "done" =>
              /\ OneExpressionStatement
              /\ ExpressionString(statements[1].expression) = Canonical(Body(src))
              /\ src = LongChain =>
                    ExpressionString(statements[1].expression) = LongChainRendered
              /\ src = <<<<"5">>, <<"<">>, <<"1","0">>, <<">">>, <<"5">>>> =>
                    ExpressionString(statements[1].expression) = <<"(", "(", "5", " ", "<", " ", "1", "0", ")", " ", ">", " ", "5", ")">>
              /\ Len(Body(src)) = 3 =>
                    /\ statements[1].expression.kind = "Infix"
                    /\ statements[1].expression.operator = Body(src)[2]
                    /\ statements[1].expression.left.kind \in {"Identifier", "IntegerLiteral"}
                    /\ statements[1].expression.left.token.literal = Body(src)[1]
                    /\ statements[1].expression.right.kind \in {"Identifier", "IntegerLiteral"}
                    /\ statements[1].expression.right.token.literal = Body(src)[3]

\* C8 witness: a + b * c + d / e - f has been parsed
InfixGroupingWitness ==
    /\ mode = "parse"
    /\ src = LongChain
    /\ pc = "done"
    /\ OneExpressionStatement
    /\ ExpressionString(statements[1].expression) = LongChainRendered

\* C9: a prefix operator ! or - applies to exactly the operand after it (an
\* identifier, an integer literal or another prefix expression) and binds tighter
\* than every infix operator: op X is one expression statement holding
\* Prefix{operator: op, right: X}, and -a * b renders as ((-a) * b).
PrefixBinding ==
    (mode = "parse" /\ WellFormedExpression(Body(src)) /\ HasPrefixOperator(Body(src))) =>
        /\ pc # "panic"
        /\ pc = "done" =>
              /\ OneExpressionStatement
              /\ ExpressionString(statements[1].expression) = Canonical(Body(src))
              /\ BinaryPlaces(Body(src)) = {} =>
                    /\ statements[1].expression.kind = "Prefix"
                    /\ statements[1].expression.operator = Body(src)[1]
                    /\ statements[1].expression.token.literal = Body(src)[1]
                    /\ ExpressionString(statements[1].expression.right)
                           = Canonical(Tail(Body(src)))
              /\ src = <<<<"-">>, <<"a">>, <<"*">>, <<"b">>>> =>
                    ExpressionString(statements[1].expression) = <<"(", "(", "-", "a", ")", " ", "*", " ", "b", ")">>

\* C9 witness: -a * b has been parsed
PrefixBindingWitness ==
    /\ mode = "parse"
    /\ src = <<<<"-">>, <<"a">>, <<"*">>, <<"b">>>>
    /\ pc = "done"
    /\ OneExpressionStatement
    /\ statements[1].expression.kind = "Infix"
    /\ statements[1].expression.left.kind = "Prefix"

\* C10: a sequence of n well-formed statements let IDENT = EXPR; and return EXPR;
\* parses, without panic, to exactly n statements in source order, the i-th a Let
\* whose name literal is the i-th identifier or a Return whose token literal is
\* `return`, and the error list is empty.
StatementsInOrder ==
    (mode = "parse" /\ IsStatementProgram(src)) =>
        /\ pc # "panic"
        /\ pc = "done" =>
              /\ errors = <<>>
              /\ Len(statements) = Len(SplitStatements(src))
              /\ \A i \in 1..Len(statements) :
                    IF SplitStatements(src)[i][1] = KwLet
                    THEN /\ statements[i].kind = "Let"
                         /\ statements[i].name.literal = SplitStatements(src)[i][2]
                    ELSE /\ statements[i].kind = "Return"
                         /\ statements[i].token.literal = KwReturn

\* C10 witness: the three let statements of tests::let_statement have been parsed
StatementsInOrderWitness ==
    /\ mode = "parse"
    /\ IsStatementProgram(src)
    /\ pc = "done"
    /\ Len(statements) = 3
    /\ statements[3].kind = "Let"
    /\ statements[3].name.literal = <<"f","o","o","b","a","r">>

\* C11: for `return E;` with E a well-formed expression the Return statement's
\* value is the tree parsed from E: the statement renders as
\* `return <fully parenthesized form of E>;`.
ReturnCarriesExpression ==
    (mode = "parse" /\ IsStatementProgram(src) /\ pc = "done") =>
        \A i \in 1..Len(SplitStatements(src)) :
            SplitStatements(src)[i][1] = KwReturn =>
                /\ i <= Len(statements)
                /\ statements[i].kind = "Return"
                /\ StatementString(statements[i])
                       = <<"r","e","t","u","r","n"," ">>
                         \o Canonical(Tail(SplitStatements(src)[i])) \o <<";">>

\* a let statement that misses its identifier or its `=`, then, after its
\* semicolon, one or more well-formed statements
IsAbandonedLetThenValid(lexemes) ==
    /\ lexemes # <<>>
    /\ Last(lexemes) = Semi
    /\ Len(SplitStatements(lexemes)) >= 2
    /\ LET first == SplitStatements(lexemes)[1]
       IN  /\ first # <<>>
           /\ first[1] = KwLet
           /\ \/ Len(first) < 2
              \/ ~LexemeIsIdent(first[2])
              \/ Len(first) < 3
              \/ first[3] # <<"=">>
    /\ \A i \in 2..Len(SplitStatements(lexemes)) :
          \/ IsLetForm(SplitStatements(lexemes)[i])
          \/ IsReturnForm(SplitStatements(lexemes)[i])
          \/ WellFormedExpression(SplitStatements(lexemes)[i])

\* C12: after an expected-token mismatch in a let statement the statement is
\* abandoned and the parse resumes at the next statement boundary: nothing is
\* built from the rest of the abandoned statement up to its semicolon, and there
\* is one error (for `let x 5; y;` the Program is the expression statement y).
LetAbandonResumes ==
    (mode = "parse" /\ IsAbandonedLetThenValid(src)) =>
        /\ pc # "panic"
        /\ pc = "done" =>
              /\ Len(errors) = 1
              /\ Len(statements) = Len(SplitStatements(src)) - 1
              /\ \A i \in 1..Len(statements) :
                    statements[i].kind =
                        IF SplitStatements(src)[i + 1][1] = KwLet THEN "Let"
                        ELSE IF SplitStatements(src)[i + 1][1] = KwReturn THEN "Return"
                        ELSE "Expression"
              /\ src = <<KwLet, <<"x">>, <<"5">>, Semi, <<"y">>, Semi>> =>
                    /\ Len(statements) = 1
                    /\ StatementString(statements[1]) = <<"y", ";">>

\* the run of digits without its leading zeros
StripZeros(x) ==
    IF \E i \in 1..Len(x) : x[i] # "0"
    THEN SubSeq(x, CHOOSE i \in 1..Len(x) : x[i] # "0" /\ \A j \in 1..(i - 1) : x[j] = "0",
                Len(x))
    ELSE <<>>

\* a <= b for two runs of digits of the same length
DigitsLeq(a, b) ==
    \/ a = b
    \/ \E i \in 1..Len(a) :
          /\ DigitValue(a[i]) < DigitValue(b[i])
          /\ \A j \in 1..(i - 1) : a[j] = b[j]

\* the decimal value of the run is at most 2147483647
WithinI32(x) ==
    \/ Len(StripZeros(x)) < Len(I32MaxDigits)
    \/ Len(StripZeros(x)) = Len(I32MaxDigits) /\ DigitsLeq(StripZeros(x), I32MaxDigits)

RECURSIVE Pow10(_)
Pow10(n) == IF n = 0 THEN 1 ELSE 10 * Pow10(n - 1)

RECURSIVE PlaceSum(_, _)
\* the sum of digit * 10^place over the places from i on
PlaceSum(x, i) ==
    IF i > Len(x) THEN 0
    ELSE IF x[i] = "0" THEN PlaceSum(x, i + 1)
    ELSE DigitValue(x[i]) * Pow10(Len(x) - i) + PlaceSum(x, i + 1)

\* the decimal value of a run of digits within i32
DecimalValue(x) == PlaceSum(x, 1)

\* C13: an Int token is a run of decimal digits (a leading minus sign is a token
\* of its own); parse_integer_literal gives an IntegerLiteral whose value is the
\* decimal value of the text exactly when that value is at most 2147483647, and
\* otherwise gives no node and appends exactly one message to the error list.
IntegerLiteralBound ==
    [][(mode = "parse" /\ pc = "parse_expression" /\ Top.st = "enter"
            /\ current_token[1].t = "Int") =>
          LET tok == current_token[1]
          IN  /\ tok.literal # <<>>
              /\ \A i \in 1..Len(tok.literal) : tok.literal[i] \in Digits
              /\ Len(stack') = Len(stack)
              /\ IF WithinI32(tok.literal)
                 THEN /\ stack'[Len(stack)].left
                             = Some(IntegerLiteral(tok, DecimalValue(tok.literal)))
                      /\ errors' = errors
                 ELSE /\ stack'[Len(stack)].left = None
                      /\ Len(errors') = Len(errors) + 1
                      /\ SubSeq(errors', 1, Len(errors)) = errors
                      /\ errors'[Len(errors')][2] = tok.literal]_vars

\* C13 witness: the operand of the minus sign in `-2147483648;` has been refused,
\* with one message and no node
IntegerLiteralBoundWitness ==
    /\ mode = "parse"
    /\ src = <<<<"-">> \o TooBig, Semi>>
    /\ pc = "parse_expression"
    /\ Len(stack) = 2
    /\ Top.st = "loop"
    /\ Top.left = None
    /\ Len(errors) = 1
    /\ current_token = Some(Token("Int", TooBig))

\* the kind of the token of an operator
OperatorType(op) ==
    CASE op = <<"!">> -> "Bang"
      [] op = <<"-">> -> "Minus"
      [] op = <<"+">> -> "Plus"
      [] op = <<"*">> -> "Asterisk"
      [] op = <<"/">> -> "Slash"
      [] op = <<"<">> -> "LT"
      [] op = <<">">> -> "GT"
      [] op = <<"=","=">> -> "Eq"
      [] op = <<"!","=">> -> "NotEq"

\* the token of the first lexeme of an expression
FirstToken(e) ==
    IF LexemeIsIdent(e[1]) THEN Token("Ident", e[1])
    ELSE IF LexemeIsInt(e[1]) THEN Token("Int", e[1])
    ELSE Token(OperatorType(e[1]), e[1])

RECURSIVE Tree(_)
\* the tree of a well-formed expression by the precedence table: it splits at the
\* last operator of the lowest level; a prefix operator takes the unit after it
Tree(e) ==
    IF BinaryPlaces(e) = {}
    THEN IF Len(e) = 1
         THEN IF LexemeIsIdent(e[1])
              THEN Identifier(FirstToken(e), e[1])
              ELSE IntegerLiteral(FirstToken(e), DecimalValue(e[1]))
         ELSE Prefix_(FirstToken(e), e[1], Tree(Tail(e)))
    ELSE LET low == CHOOSE l \in 1..4 :
                       /\ \E i \in BinaryPlaces(e) : TableLevel(e[i]) = l
                       /\ \A i \in BinaryPlaces(e) : TableLevel(e[i]) >= l
             at == CHOOSE i \in BinaryPlaces(e) :
                       /\ TableLevel(e[i]) = low
                       /\ \A j \in BinaryPlaces(e) : TableLevel(e[j]) = low => j <= i
         IN  Infix(Token(OperatorType(e[at]), e[at]), e[at],
                   Tree(SubSeq(e, 1, at - 1)), Tree(SubSeq(e, at + 1, Len(e))))

\* the length of the longest well-formed expression the text starts with, or 0
LongestExpression(lexemes) ==
    LET ends == {n \in 1..Len(lexemes) : WellFormedExpression(SubSeq(lexemes, 1, n))}
    IN  IF ends = {} THEN 0 ELSE CHOOSE n \in ends : \A k \in ends : k <= n

\* what follows the expression the text starts with and the one semicolon that
\* may end it
AfterExpression(lexemes) ==
    LET n == LongestExpression(lexemes)
    IN  IF n < Len(lexemes) /\ lexemes[n + 1] = Semi
        THEN SubSeq(lexemes, n + 2, Len(lexemes))
        ELSE SubSeq(lexemes, n + 1, Len(lexemes))

RECURSIVE IsExpressionProgram(_)
\* a sequence of well-formed expressions, each with or without its semicolon
IsExpressionProgram(lexemes) ==
    \/ lexemes = <<>>
    \/ LongestExpression(lexemes) > 0 /\ IsExpressionProgram(AfterExpression(lexemes))

RECURSIVE Expressions(_)
\* the expressions of such a sequence
Expressions(lexemes) ==
    IF lexemes = <<>> THEN <<>>
    ELSE <<SubSeq(lexemes, 1, LongestExpression(lexemes))>>
         \o Expressions(AfterExpression(lexemes))

\* C14: the semicolon of an expression statement is optional: E and E; give the
\* same expression statement, with the tree of E and no error, and in both cases
\* the statement that follows starts at the first token after E or after the
\* semicolon.  (The result depends only on the expressions of the text, which are
\* the same with and without each semicolon.)
OptionalSemicolon ==
    (mode = "parse" /\ pc \in {"panic", "done"} /\ src # <<>> /\ IsExpressionProgram(src)) =>
        /\ pc = "done"
        /\ errors = <<>>
        /\ statements =
              [i \in 1..Len(Expressions(src)) |->
                  ExpressionStatement(FirstToken(Expressions(src)[i]),
                                      Tree(Expressions(src)[i]))]

\* C14 witness: `x; 5` has been parsed: an expression with its semicolon, then one
\* without
OptionalSemicolonWitness ==
    /\ mode = "parse"
    /\ src = <<<<"x">>, Semi, <<"5">>>>
    /\ pc = "done"
    /\ Len(statements) = 2
    /\ statements[2].expression.kind = "IntegerLiteral"

\* C15: expect_peek(kind) has exactly two outcomes.  If the lookahead token has
\* the kind, it advances by exactly one token (the lookahead becomes the current
\* token, the next token of the lexer becomes the lookahead), returns true (the
\* rule goes on) and leaves the error list as it was.  Otherwise it returns false
\* (the rule is left), appends exactly one message naming the expected and the
\* actual kind, and leaves current_token, peek_token and the lexer as they were.
ExpectPeekOutcomes ==
    [][(mode = "parse" /\ pc \in {"let_ident", "let_assign"}) =>
          LET kind == IF pc = "let_ident" THEN "Ident" ELSE "Assign"
              r == next_token(lexer)
          IN  IF peek_token[1].t = kind
              THEN /\ r.ok
                   /\ current_token' = peek_token
                   /\ peek_token' = Some(r.tok)
                   /\ lexer' = r.l
                   /\ stream' = Append(stream, r.tok)
                   /\ errors' = errors
                   /\ pc' = IF pc = "let_ident" THEN "let_assign" ELSE "let_skip"
              ELSE /\ pc' = "next"
                   /\ Len(errors') = Len(errors) + 1
                   /\ SubSeq(errors', 1, Len(errors)) = errors
                   /\ errors'[Len(errors')][2] = kind
                   /\ errors'[Len(errors')][4] = peek_token[1].t
                   /\ errors'[Len(errors')][4] # kind
                   /\ UNCHANGED <<current_token, peek_token, lexer, stream>>]_vars

\* C15 witness: in `let x 5; y;` expect_peek(Ident) has succeeded and
\* expect_peek(Assign) has failed
ExpectPeekOutcomesWitness ==
    /\ mode = "parse"
    /\ src = <<KwLet, <<"x">>, <<"5">>, Semi, <<"y">>, Semi>>
    /\ pc = "next"
    /\ locals.name = Some(Token("Ident", <<"x">>))
    /\ current_token = Some(Token("Ident", <<"x">>))
    /\ peek_token = Some(Token("Int", <<"5">>))
    /\ errors = <<<<"expected next Token to be ", "Assign", ", got ", "Int", " instead">>>>

\* the place of the first semicolon among the lexemes, or 0
FirstSemi(lexemes) ==
    IF \E i \in 1..Len(lexemes) : lexemes[i] = Semi
    THEN CHOOSE i \in 1..Len(lexemes) : lexemes[i] = Semi /\ \A j \in 1..(i - 1) : lexemes[j] # Semi
    ELSE 0

\* the index in the input text (from 0) at which the i-th lexeme starts; the
\* end-of-input token starts at the end of the text
LexemeStart(lexemes, i) ==
    IF i > Len(lexemes) THEN Len(JoinSp(lexemes))
    ELSE IF i = 1 THEN 0
    ELSE Len(JoinSp(SubSeq(lexemes, 1, i - 1))) + 1

\* `let IDENT =` or `return`, any tokens, a semicolon, then well-formed statements
IsSkipInput(lexemes) ==
    /\ FirstSemi(lexemes) > 0
    /\ \/ lexemes[1] = KwReturn
       \/ /\ FirstSemi(lexemes) > 3
          /\ lexemes[1] = KwLet
          /\ LexemeIsIdent(lexemes[2])
          /\ lexemes[3] = <<"=">>
    /\ LET rest == SubSeq(lexemes, FirstSemi(lexemes) + 1, Len(lexemes))
       IN  IsExpressionProgram(rest) \/ IsStatementProgram(rest)

\* the number of statements after the first semicolon of such an input
StatementsAfterFirstSemi(lexemes) ==
    LET rest == SubSeq(lexemes, FirstSemi(lexemes) + 1, Len(lexemes))
    IN  IF IsExpressionProgram(rest)
        THEN Len(Expressions(rest))
        ELSE Len(SplitStatements(rest))

\* the index in the input text at which the current token starts
CurrentStart == starts[Len(starts) - 1]

\* C16: when the let rule (after `let IDENT =`) or the return rule returns its
\* statement the current token is the first semicolon that follows, whatever the
\* tokens in between; they are consumed without any error, and the next
\* top-level statement starts at the token right after that semicolon.
SkipReachesFirstSemicolon ==
    (mode = "parse" /\ IsSkipInput(src)) =>
        /\ pc # "panic"
        /\ (pc = "next" /\ Len(statements) = 1) =>
              /\ statements[1].kind = IF src[1] = KwLet THEN "Let" ELSE "Return"
              /\ errors = <<>>
              /\ current_token = Some(Token("Semicolon", Semi))
              /\ CurrentStart = LexemeStart(src, FirstSemi(src))
        /\ (pc = "parse_program" /\ Len(statements) = 1) =>
              /\ errors = <<>>
              /\ CurrentStart = LexemeStart(src, FirstSemi(src) + 1)
        /\ (pc \in {"let_skip", "return_skip"} /\ statements = <<>>) =>
              /\ errors = <<>>
              /\ CurrentStart <= LexemeStart(src, FirstSemi(src))
        /\ pc = "done" =>
              /\ errors = <<>>
              /\ Len(statements) = 1 + StatementsAfterFirstSemi(src)
              /\ statements[1].kind = IF src[1] = KwLet THEN "Let" ELSE "Return"

\* C16 witness: the let rule has returned from `let x = = return ; y`, at the
\* semicolon
SkipReachesFirstSemicolonWitness ==
    /\ mode = "parse"
    /\ src = <<KwLet, <<"x">>, <<"=">>, <<"=">>, KwReturn, Semi, <<"y">>>>
    /\ pc = "next"
    /\ Len(statements) = 1
    /\ statements[1].kind = "Let"
    /\ current_token = Some(Token("Semicolon", Semi))
    /\ peek_token = Some(Token("Ident", <<"y">>))

\* the token of a lexeme that is one token
TokenOfLexeme(x) ==
    IF x \in Keywords THEN Token(lookup_ident(x), x)
    ELSE IF LexemeIsIdent(x) THEN Token("Ident", x)
    ELSE IF \A i \in 1..Len(x) : x[i] \in Digits THEN Token("Int", x)
    ELSE IF x = Semi THEN Token("Semicolon", x)
    ELSE IF x = <<"=">> THEN Token("Assign", x)
    ELSE Token(OperatorType(x), x)

\* every lexeme of the text is one token
IsTokenText(lexemes) ==
    \A i \in 1..Len(lexemes) :
        \/ lexemes[i] \in Keywords \cup InfixOps \cup PrefixOps \cup {Semi, <<"=">>}
        \/ LexemeIsIdent(lexemes[i])
        \/ lexemes[i] # <<>> /\ \A j \in 1..Len(lexemes[i]) : lexemes[i][j] \in Digits

\* the i-th token of the lexer's stream for such a text: the tokens of the
\* lexemes in order, then end-of-input for ever
StreamToken(i) == IF i <= Len(src) THEN TokenOfLexeme(src[i]) ELSE Token("EOF", <<>>)

\* with k + 1 tokens asked of the lexer, they are the first k + 1 tokens of the
\* stream, current_token is the k-th and peek_token the (k+1)-th
BufferHoldsLastTwo ==
    (mode = "parse" /\ pc # "panic" /\ Len(stream) < StreamLimit /\ IsTokenText(src)) =>
        IF pc = "new"
        THEN stream = <<>> /\ current_token = None /\ peek_token = None
        ELSE /\ Len(stream) >= 2
             /\ \A i \in 1..Len(stream) : stream[i] = StreamToken(i)
             /\ current_token = Some(StreamToken(Len(stream) - 1))
             /\ peek_token = Some(StreamToken(Len(stream)))

\* a step asks the lexer for no token and leaves both buffered tokens, or it asks
\* for exactly one and shifts the lookahead into current_token; Parser::new asks
\* for two
AdvanceShiftsByOne ==
    (mode = "parse" /\ pc' # "panic" /\ Len(stream') < StreamLimit) =>
        IF pc = "new"
        THEN /\ Len(stream') = 2
             /\ lexer' = next_token(next_token(lexer).l).l
        ELSE IF stream' = stream
        THEN UNCHANGED <<lexer, current_token, peek_token>>
        ELSE LET r == next_token(lexer)
             IN  /\ stream' = Append(stream, r.tok)
                 /\ current_token' = peek_token
                 /\ peek_token' = Some(r.tok)
                 /\ lexer' = r.l

\* C17: right after Parser::new and after any number of advances made by any
\* grammar rule, current_token is the k-th token of the lexer's stream and
\* peek_token the (k+1)-th, for a k that grows by exactly one per advance; no
\* token is skipped, duplicated or reordered, and the lexer has been asked for
\* exactly k + 1 tokens.
LookaheadBuffer == [](BufferHoldsLastTwo) /\ [][AdvanceShiftsByOne]_vars

\* C17 witness: the parse of `a + b * c + d / e - f` is inside the expression,
\* with `d` current and `/` in the lookahead after eight advances
LookaheadBufferWitness ==
    /\ mode = "parse"
    /\ src = LongChain
    /\ Len(stream) = 8
    /\ current_token = Some(Token("Ident", <<"d">>))
    /\ peek_token = Some(Token("Slash", <<"/">>))
    /\ Len(stack) = 2

====
